---------------------------- MODULE Spec2Model ----------------------------
(***************************************************************************)
(* Model of supervisor/api/ingress.py: the add-on ingress reverse proxy.   *)
(*                                                                         *)
(* One inbound request is followed from APIIngress.handler through the     *)
(* session check, the add-on lookup, and then either _handle_request (one  *)
(* HTTP exchange, buffered or streamed) or _handle_websocket (the upgrade, *)
(* the backend connection and the two _websocket_forward tasks).  Every    *)
(* await of the code is a step of the model; what the aiohttp library and  *)
(* the two peers do at an await is a nondeterministic choice.              *)
(*                                                                         *)
(* Optional values (Python's None) are sequences of length 0 or 1.         *)
(* A byte string that is only cut and joined is a slice [off, len] of the  *)
(* body it is taken from.                                                  *)
(***************************************************************************)
EXTENDS Integers, Sequences, FiniteSets, TLC

VARIABLES
    req,            \* the inbound web.Request (fixed for the request's life)
    pc,             \* position of the handler coroutine
    outcome,        \* what the handler returned or raised, <<>> while running
    resolved,       \* _extract_addon has been called
    addon,          \* the Addon returned by sys_ingress.get, None before
    backendCalls,   \* connections opened to the backend, in order
    clientOut,      \* what the handler itself has written to the client
    source_header,  \* the header dict _init_header returned, None before
    data,           \* the request body object handed to the backend call
    result,         \* the backend's ClientResponse, None before
    mode,           \* delivery mode chosen for the backend response
    offset,         \* bytes of the backend body consumed by iter_chunked
    cur,            \* the chunk read and not yet written
    shortReads,     \* reads that returned fewer bytes than were available
    streamError,    \* an error was caught inside the streaming try block
    raised,         \* the exception that left the handler's try block
    conn,           \* the two websocket connections of the relay
    task,           \* the two _websocket_forward tasks
    recvd,          \* frames each task has taken from its source
    sent,           \* frames each task has sent to its destination
    closeCalls      \* ws_to.close(...) calls made by each task

vars == <<req, pc, outcome, resolved, addon, backendCalls, clientOut,
          source_header, data, result, mode, offset, cur, shortReads,
          streamError, raised, conn, task, recvd, sent, closeCalls>>

None == <<>>
Some(v) == <<v>>

-----------------------------------------------------------------------------
(* Bounds of the model.                                                    *)

\* headers of a request given to the header transform on its own
MaxHeaders == 2
\* frames taken from the two peers of one relay, both directions together
MaxFrames == 3
\* reads at the start of the backend body that return a single byte although
\* more is to come (every later read returns all there is, up to the limit)
MaxShortReads == 1

(* Constants of the program.                                               *)

\* int(result.headers.get(CONTENT_LENGTH, 0)) < 4_194_000
BufferLimit == 4194000
\* result.content.iter_chunked(4096)
ChunkSize == 4096

-----------------------------------------------------------------------------
(* Header names (aiohttp.hdrs and supervisor/api/const.py).                *)

CONTENT_LENGTH == "Content-Length"
CONTENT_ENCODING == "Content-Encoding"
TRANSFER_ENCODING == "Transfer-Encoding"
SEC_WEBSOCKET_EXTENSIONS == "Sec-WebSocket-Extensions"
SEC_WEBSOCKET_PROTOCOL == "Sec-WebSocket-Protocol"
SEC_WEBSOCKET_VERSION == "Sec-WebSocket-Version"
SEC_WEBSOCKET_KEY == "Sec-WebSocket-Key"
X_FORWARDED_FOR == "X-Forwarded-For"
CONNECTION == "Connection"
UPGRADE == "Upgrade"
HEADER_TOKEN == "X-Supervisor-Token"
HEADER_TOKEN_OLD == "X-Hassio-Key"

(* str.lower() on the strings the model uses: every string that is not    *)
(* listed here is already in lower case.                                   *)
LowerOf ==
    [s \in {CONTENT_LENGTH, CONTENT_ENCODING, TRANSFER_ENCODING,
            SEC_WEBSOCKET_EXTENSIONS, SEC_WEBSOCKET_PROTOCOL,
            SEC_WEBSOCKET_VERSION, SEC_WEBSOCKET_KEY, X_FORWARDED_FOR,
            CONNECTION, UPGRADE, HEADER_TOKEN, HEADER_TOKEN_OLD,
            "Accept", "WebSocket", "keep-alive, Upgrade"} |->
        CASE s = CONTENT_LENGTH -> "content-length"
          [] s = CONTENT_ENCODING -> "content-encoding"
          [] s = TRANSFER_ENCODING -> "transfer-encoding"
          [] s = SEC_WEBSOCKET_EXTENSIONS -> "sec-websocket-extensions"
          [] s = SEC_WEBSOCKET_PROTOCOL -> "sec-websocket-protocol"
          [] s = SEC_WEBSOCKET_VERSION -> "sec-websocket-version"
          [] s = SEC_WEBSOCKET_KEY -> "sec-websocket-key"
          [] s = X_FORWARDED_FOR -> "x-forwarded-for"
          [] s = CONNECTION -> "connection"
          [] s = UPGRADE -> "upgrade"
          [] s = HEADER_TOKEN -> "x-supervisor-token"
          [] s = HEADER_TOKEN_OLD -> "x-hassio-key"
          [] s = "Accept" -> "accept"
          [] s = "WebSocket" -> "websocket"
          [] s = "keep-alive, Upgrade" -> "keep-alive, upgrade"]

Lower(s) == IF s \in DOMAIN LowerOf THEN LowerOf[s] ELSE s

(* request.headers is a CIMultiDictProxy: an ordered list of (name, value) *)
(* pairs, the names as the parser stored them, looked up without regard to *)
(* case.  items() yields the pairs in order with the stored names.         *)

\* `name in headers`
HasHeader(headers, name) ==
    \E i \in 1..Len(headers) : Lower(headers[i][1]) = Lower(name)

\* headers.get(name): the first value stored under the name, or None
HeaderGet(headers, name) ==
    IF HasHeader(headers, name)
    THEN LET i == CHOOSE j \in 1..Len(headers) :
                    /\ Lower(headers[j][1]) = Lower(name)
                    /\ \A k \in 1..(j - 1) : Lower(headers[k][1]) # Lower(name)
         IN  Some(headers[i][2])
    ELSE None

\* headers.get(name, default)
HeaderGetDefault(headers, name, default) ==
    IF HasHeader(headers, name) THEN HeaderGet(headers, name)[1] ELSE default

(* A Python dict with str keys: insertion-ordered (key, value) pairs, the  *)
(* keys compared as plain strings.  d[k] = v replaces the value of an      *)
(* existing key in place and appends a new key at the end.                 *)
DictSet(d, k, v) ==
    IF \E i \in 1..Len(d) : d[i][1] = k
    THEN [i \in 1..Len(d) |-> IF d[i][1] = k THEN <<k, v>> ELSE d[i]]
    ELSE Append(d, <<k, v>>)

\* str(x) of an optional string: str(None) is the text "None"
PyStr(opt) == IF opt = None THEN "None" ELSE opt[1]

\* the tuple of names _init_header tests each inbound name against
InitHeaderFilter ==
    {CONTENT_LENGTH, CONTENT_ENCODING, TRANSFER_ENCODING,
     SEC_WEBSOCKET_EXTENSIONS, SEC_WEBSOCKET_PROTOCOL, SEC_WEBSOCKET_VERSION,
     SEC_WEBSOCKET_KEY, HEADER_TOKEN, HEADER_TOKEN_OLD}

\* `name in (hdrs.CONTENT_LENGTH, ..., istr(HEADER_TOKEN_OLD))`: a tuple's
\* membership test compares with ==, and istr is a str: the exact string
InFilter(name) == name \in InitHeaderFilter

\* the loop of _init_header over request.headers.items(), from header i on
RECURSIVE FilterHeaders(_, _, _)
FilterHeaders(headers, i, out) ==
    IF i > Len(headers) THEN out
    ELSE IF InFilter(headers[i][1])
         THEN FilterHeaders(headers, i + 1, out)
         ELSE FilterHeaders(headers, i + 1,
                            DictSet(out, headers[i][1], headers[i][2]))

\* the peer addresses ip_address() parses; str() of the parsed address gives
\* the same text back for an address the socket layer has formatted
IpLiterals == {"10.0.0.5", "172.30.32.2"}

\* f"{forward_for}, {connected_ip!s}"
ForwardedFor(forward_for, connected_ip) ==
    PyStr(forward_for) \o ", " \o connected_ip

\* _init_header that formats whatever the transport gives as the address
_init_header_any_peer(request) ==
    LET headers == FilterHeaders(request.headers, 1, <<>>)
        forward_for == HeaderGet(request.headers, X_FORWARDED_FOR)
    IN  [ok |-> TRUE,
         headers |-> DictSet(headers, X_FORWARDED_FOR,
                             ForwardedFor(forward_for, PyStr(request.peer)))]

(* _init_header(request, addon): the outbound header dict, or an exception *)
(* (ok = FALSE) when the transport has no peername (None[0]) or the peer   *)
(* is no IP address.                                                       *)
_init_header(request) ==
    LET headers == FilterHeaders(request.headers, 1, <<>>)
        forward_for == HeaderGet(request.headers, X_FORWARDED_FOR)
    IN  IF request.peer = None \/ request.peer[1] \notin IpLiterals
        THEN [ok |-> FALSE, headers |-> <<>>]
        ELSE [ok |-> TRUE,
              headers |-> DictSet(headers, X_FORWARDED_FOR,
                                  ForwardedFor(forward_for, request.peer[1]))]

\* "upgrade" in <the lower-cased Connection value>
ContainsUpgrade(value) == value \in {"upgrade", "keep-alive, upgrade"}

\* _is_websocket(request)
_is_websocket(request) ==
    /\ ContainsUpgrade(Lower(HeaderGetDefault(request.headers, CONNECTION, "")))
    /\ Lower(HeaderGetDefault(request.headers, UPGRADE, "")) = "websocket"


-----------------------------------------------------------------------------
(* The collaborators the handler consults, and the inputs of a run.        *)

\* the sessions the session store holds as valid
ValidSessions == {"session-live"}

\* sys_ingress.validate_session(session): an absent cookie is no session
validate_session(session) ==
    /\ session # None
    /\ session[1] \in ValidSessions

\* the add-ons the registry knows, by ingress token
Registry ==
    [t \in {"token-stream", "token-plain"} |->
        [slug |-> t, ingress_stream |-> (t = "token-stream")]]

\* sys_ingress.get(token)
IngressGet(token) ==
    IF token \in DOMAIN Registry THEN Some(Registry[token]) ELSE None

Cookies == {None, Some("session-live"), Some("session-gone")}
Tokens == {"token-stream", "token-plain", "token-unknown"}
Peers == {Some("10.0.0.5"), None}

PlainHeaders == << <<"Accept", "text/html">>, <<CONNECTION, "keep-alive">> >>
H2cHeaders == << <<CONNECTION, "Upgrade">>, <<UPGRADE, "h2c">> >>
WsHeaders ==
    << <<CONNECTION, "Upgrade">>, <<UPGRADE, "websocket">>,
       <<SEC_WEBSOCKET_KEY, "a2V5">> >>
WsMixedHeaders ==
    << <<CONNECTION, "keep-alive, Upgrade">>, <<UPGRADE, "WebSocket">>,
       <<SEC_WEBSOCKET_PROTOCOL, "mqtt, json">> >>

\* method, headers and body of the requests a client sends: a plain exchange
\* with or without a body, and an upgrade request, which is a bare GET
RequestShapes ==
    [method : {"POST", "PUT"}, headers : {PlainHeaders}, body : {<<104, 105>>}]
    \cup [method : {"GET"},
          headers : {PlainHeaders, H2cHeaders, WsHeaders, WsMixedHeaders},
          body : {<<>>}]

\* the upgrade requests go to one add-on only: ingress_stream, the one
\* thing the two add-ons differ in, is read on the HTTP path alone
Requests ==
    {r \in {[cookie |-> c, token |-> t, method |-> sh.method,
             headers |-> sh.headers, body |-> sh.body, peer |-> p] :
                c \in Cookies, t \in Tokens, sh \in RequestShapes,
                p \in Peers} :
        r.headers \in {WsHeaders, WsMixedHeaders} => r.token # "token-stream"}

\* the responses a backend gives: the declared Content-Length (or none, a
\* chunked body) and the length of the body that follows
BackendResponses ==
    {[cl |-> Some(n), len |-> n] : n \in {1000, BufferLimit - 1, BufferLimit}}
    \cup {[cl |-> None, len |-> n] : n \in {0, ChunkSize, 2 * ChunkSize + 1}}

Directions == {"up", "down"}

\* nothing has happened yet for the request
Fresh ==
    /\ outcome = "none"
    /\ resolved = FALSE
    /\ addon = None
    /\ backendCalls = <<>>
    /\ clientOut = <<>>
    /\ source_header = None
    /\ data = None
    /\ result = None
    /\ mode = "none"
    /\ offset = 0
    /\ cur = None
    /\ shortReads = 0
    /\ streamError = FALSE
    /\ raised = "none"
    /\ conn = [server |-> "none", client |-> "none"]
    /\ task = [d \in Directions |-> [pc |-> "none", msg |-> None]]
    /\ recvd = [d \in Directions |-> <<>>]
    /\ sent = [d \in Directions |-> <<>>]
    /\ closeCalls = [d \in Directions |-> <<>>]

\* a request arrives at APIIngress.handler
Init ==
    /\ req \in Requests
    /\ pc = "start"
    /\ Fresh

httpVars == <<source_header, data, result, mode, offset, cur, shortReads, streamError>>
wsVars == <<conn, task, recvd, sent, closeCalls>>

\* the handler ends: it returns a response object or raises
Finish(o) ==
    /\ pc' = "done"
    /\ outcome' = o

\* the exception classes of aiohttp that derive from aiohttp.ClientError
ClientErrors == {"ClientConnectionError", "ClientPayloadError",
                 "WSServerHandshakeError"}

\* HandlerExcept that catches connection errors only
HandlerExceptNarrow(exc) ==
    IF exc = "ClientConnectionError" THEN "BadGateway"
    ELSE IF exc = "HTTPBadRequest" THEN "HandshakeError"
    ELSE "InternalError"

\* except aiohttp.ClientError: log, then raise HTTPBadGateway(); every other
\* exception leaves the handler as it is
HandlerExcept(exc) ==
    IF exc \in ClientErrors THEN "BadGateway"
    ELSE IF exc = "HTTPBadRequest" THEN "HandshakeError"
    ELSE "InternalError"

\* an exception is raised inside the try block of handler
Raise(exc) ==
    /\ pc' = "done"
    /\ raised' = exc
    /\ outcome' = HandlerExcept(exc)

-----------------------------------------------------------------------------
(* APIIngress.handler                                                      *)

\* CheckSession with the test inverted to "cookie present"
CheckSessionAnyCookie ==
    /\ pc = "start"
    /\ IF req.cookie = None
       THEN Finish("Unauthorized")
       ELSE pc' = "extract" /\ UNCHANGED outcome
    /\ UNCHANGED <<req, raised, resolved, addon, backendCalls, clientOut, httpVars,
                   wsVars>>

\* session = request.cookies.get(COOKIE_INGRESS); validate or raise
CheckSession ==
    /\ pc = "start"
    /\ IF ~validate_session(req.cookie)
       THEN Finish("Unauthorized")
       ELSE pc' = "extract" /\ UNCHANGED outcome
    /\ UNCHANGED <<req, raised, resolved, addon, backendCalls, clientOut, httpVars,
                   wsVars>>

\* ExtractAddon that logs the warning and goes on with some add-on
ExtractAddonNoRaise ==
    /\ pc = "extract"
    /\ resolved' = TRUE
    /\ LET found == IngressGet(req.token)
       IN  addon' = IF found = None THEN Some(Registry["token-plain"])
                    ELSE found
    /\ pc' = "dispatch"
    /\ UNCHANGED <<req, raised, outcome, backendCalls, clientOut, httpVars, wsVars>>

\* addon = self._extract_addon(request)
ExtractAddon ==
    /\ pc = "extract"
    /\ resolved' = TRUE
    /\ LET found == IngressGet(req.token)
       IN  IF found = None
           THEN Finish("ServiceUnavailable") /\ UNCHANGED addon
           ELSE addon' = found /\ pc' = "dispatch" /\ UNCHANGED outcome
    /\ UNCHANGED <<req, raised, backendCalls, clientOut, httpVars, wsVars>>

\* if _is_websocket(request): ... else ...
Dispatch ==
    /\ pc = "dispatch"
    /\ pc' = IF _is_websocket(req) THEN "ws_prepare" ELSE "http_enter"
    /\ UNCHANGED <<req, raised, outcome, resolved, addon, backendCalls, clientOut,
                   httpVars, wsVars>>


-----------------------------------------------------------------------------
(* APIIngress._handle_request                                              *)

\* StreamsBody with `or` for `and`
StreamsBodyEither(request, a) == request.method = "POST" \/ a.ingress_stream

\* request.method == "POST" and addon.ingress_stream
StreamsBody(request, a) == request.method = "POST" /\ a.ingress_stream

\* data = request.content if ... else await request.read()
RequestData(request, a) ==
    IF StreamsBody(request, a)
    THEN [kind |-> "stream", bytes |-> <<>>]
    ELSE [kind |-> "bytes", bytes |-> request.body]

\* what the backend reads as the request body: the bytes object as it is, or
\* the client's stream read to its end by the client session
BytesSent(request, d) == IF d.kind = "stream" THEN request.body ELSE d.bytes

\* IsSimple with the comparison written <=
IsSimpleInclusive(r) == r.cl # None /\ r.cl[1] <= BufferLimit

\* CONTENT_LENGTH in result.headers and int(...) < 4_194_000
IsSimple(r) == r.cl # None /\ r.cl[1] < BufferLimit

DeliveryMode(r) == IF IsSimple(r) THEN "buffered" ELSE "streamed"

\* ChunkLimit of a loop that takes whatever has arrived (iter_any)
ChunkLimitAny == BufferLimit

\* the size limit of one chunk: iter_chunked(4096)
ChunkLimit == ChunkSize

Min(a, b) == IF a < b THEN a ELSE b

\* the sizes one read of the backend body may return with `rem` bytes left:
\* what is there up to the limit, or less when less has arrived
ReadSizes(rem) ==
    {Min(rem, ChunkLimit)}
    \cup (IF shortReads < MaxShortReads /\ offset = shortReads /\ rem > 1
          THEN {1} ELSE {})

\* url, source_header and data are prepared; the body is read unless streamed
HttpEnter ==
    /\ pc = "http_enter"
    /\ LET h == _init_header(req)
       IN  IF ~h.ok
           THEN /\ Raise("TypeError")
                /\ UNCHANGED <<source_header, data>>
           ELSE /\ source_header' = Some(h.headers)
                /\ data' = Some(RequestData(req, addon[1]))
                /\ pc' = "http_request"
                /\ UNCHANGED <<outcome, raised>>
    /\ UNCHANGED <<req, resolved, addon, backendCalls, clientOut, result, mode,
                   offset, cur, shortReads, streamError, wsVars>>

\* async with self.sys_websession.request(...) as result, up to the choice
\* between the simple and the streamed response
HttpRequest ==
    /\ pc = "http_request"
    /\ \/ /\ backendCalls' = Append(backendCalls,
                [kind |-> "http", ok |-> FALSE, headers |-> source_header[1],
                 body |-> <<>>])
          /\ Raise("ClientConnectionError")
          /\ UNCHANGED <<result, mode>>
       \/ \E r \in BackendResponses :
            /\ backendCalls' = Append(backendCalls,
                  [kind |-> "http", ok |-> TRUE, headers |-> source_header[1],
                   body |-> BytesSent(req, data[1])])
            /\ result' = Some(r)
            /\ mode' = DeliveryMode(r)
            /\ pc' = IF DeliveryMode(r) = "buffered" THEN "http_read"
                     ELSE "stream_prepare"
            /\ UNCHANGED <<outcome, raised>>
    /\ UNCHANGED <<req, resolved, addon, clientOut, source_header, data, offset,
                   cur, shortReads, streamError, wsVars>>

\* body = await result.read(); return web.Response(...)
HttpReadSimple ==
    /\ pc = "http_read"
    /\ \/ Finish("Response") /\ UNCHANGED raised
       \/ Raise("ClientPayloadError")
    /\ UNCHANGED <<req, resolved, addon, backendCalls, clientOut, httpVars,
                   wsVars>>

\* StreamFailure without the try block: the error reaches handler's except
StreamFailureUncaught ==
    /\ streamError' = TRUE
    /\ Finish("BadGateway")

\* except (ClientError, ClientPayloadError, ConnectionResetError): log the
\* error; the function goes on to `return response`
StreamFailure ==
    /\ streamError' = TRUE
    /\ Finish("StreamResponse")

\* await response.prepare(request)
StreamPrepare ==
    /\ pc = "stream_prepare"
    /\ \/ /\ clientOut' = Append(clientOut, [kind |-> "headers", off |-> 0,
                                             len |-> 0])
          /\ pc' = "stream_read"
          /\ UNCHANGED <<outcome, streamError>>
       \/ /\ StreamFailure
          /\ UNCHANGED clientOut
    /\ UNCHANGED <<req, raised, resolved, addon, backendCalls, source_header, data,
                   result, mode, offset, cur, shortReads, wsVars>>

\* one step of `async for data in result.content.iter_chunked(4096)`
StreamRead ==
    /\ pc = "stream_read"
    /\ LET rem == result[1].len - offset
       IN  \/ /\ rem = 0
              /\ Finish("StreamResponse")
              /\ UNCHANGED <<offset, cur, shortReads, streamError>>
           \/ /\ rem > 0
              /\ \E n \in ReadSizes(rem) :
                    /\ cur' = Some([off |-> offset, len |-> n])
                    /\ offset' = offset + n
                    /\ shortReads' = IF n < Min(rem, ChunkLimit)
                                     THEN shortReads + 1 ELSE shortReads
              /\ pc' = "stream_write"
              /\ UNCHANGED <<outcome, streamError>>
           \/ /\ rem > 0
              /\ StreamFailure
              /\ UNCHANGED <<offset, cur, shortReads>>
    /\ UNCHANGED <<req, raised, resolved, addon, backendCalls, clientOut,
                   source_header, data, result, mode, wsVars>>

\* await response.write(data)
StreamWrite ==
    /\ pc = "stream_write"
    /\ \/ /\ clientOut' = Append(clientOut, [kind |-> "chunk",
                                             off |-> cur[1].off,
                                             len |-> cur[1].len])
          /\ cur' = None
          /\ pc' = "stream_read"
          /\ UNCHANGED <<outcome, streamError>>
       \/ /\ StreamFailure
          /\ UNCHANGED <<clientOut, cur>>
    /\ UNCHANGED <<req, raised, resolved, addon, backendCalls, source_header, data,
                   result, mode, offset, shortReads, wsVars>>

-----------------------------------------------------------------------------
(* APIIngress._handle_websocket and _websocket_forward                     *)

\* the messages `async for msg in ws_from` can meet; ERROR stands for every
\* type the loop has no send for
WsFrames ==
    {[type |-> "TEXT", data |-> "a", extra |-> ""],
     [type |-> "TEXT", data |-> "b", extra |-> ""],
     [type |-> "BINARY", data |-> "a", extra |-> ""],
     [type |-> "PING", data |-> "a", extra |-> ""],
     [type |-> "PONG", data |-> "a", extra |-> ""],
     [type |-> "CLOSE", data |-> "1000", extra |-> "bye"],
     [type |-> "ERROR", data |-> "1002", extra |-> ""]}

\* up: _websocket_forward(ws_server, ws_client), client to backend;
\* down: _websocket_forward(ws_client, ws_server), backend to client
Source(d) == IF d = "up" THEN "server" ELSE "client"
Dest(d) == IF d = "up" THEN "client" ELSE "server"

TotalFrames == Len(recvd["up"]) + Len(recvd["down"])

\* ForwardedFrame with every data message sent by send_str
ForwardedFrameAllText(msg) ==
    CASE msg.type \in {"TEXT", "BINARY"} -> [type |-> "TEXT", data |-> msg.data]
      [] msg.type = "PING" -> [type |-> "PING", data |-> ""]
      [] msg.type = "PONG" -> [type |-> "PONG", data |-> ""]

\* the send the if/elif chain of _websocket_forward picks for a message:
\* send_str(msg.data), send_bytes(msg.data), ping(), pong()
ForwardedFrame(msg) ==
    CASE msg.type = "TEXT" -> [type |-> "TEXT", data |-> msg.data]
      [] msg.type = "BINARY" -> [type |-> "BINARY", data |-> msg.data]
      [] msg.type = "PING" -> [type |-> "PING", data |-> ""]
      [] msg.type = "PONG" -> [type |-> "PONG", data |-> ""]

\* the messages that reach one of the four send branches
HasSend(msg) == msg.type \in {"TEXT", "BINARY", "PING", "PONG"}

\* where a forwarding task is after an exception: RuntimeError is caught by
\* the task's except clause, anything else ends the task with the exception
AfterError(e) == IF e = "RuntimeError" THEN "caught" ELSE "failed"

\* a forwarding task that has ended, in whichever way
Ended == {"done", "caught", "failed"}

TaskErrors == {"RuntimeError", "ConnectionResetError"}

\* value.split(",") for the header values of the requests
Split(value) ==
    CASE value = "mqtt, json" -> <<"mqtt", " json">>
      [] OTHER -> <<value>>

\* str(proto.strip()) for the pieces Split gives
Strip(piece) ==
    CASE piece = " json" -> "json"
      [] OTHER -> piece

\* req_protocols without the strip()
req_protocols_unstripped(request) ==
    IF HasHeader(request.headers, SEC_WEBSOCKET_PROTOCOL)
    THEN Split(HeaderGet(request.headers, SEC_WEBSOCKET_PROTOCOL)[1])
    ELSE <<>>

\* the sub-protocols the client asks for: the header split on commas and
\* stripped, () when the header is absent
req_protocols(request) ==
    IF HasHeader(request.headers, SEC_WEBSOCKET_PROTOCOL)
    THEN LET pieces == Split(HeaderGet(request.headers,
                                       SEC_WEBSOCKET_PROTOCOL)[1])
         IN  [i \in 1..Len(pieces) |-> Strip(pieces[i])]
    ELSE <<>>

\* ClosesDest as a plain else
ClosesDestAlways(d) == TRUE

\* elif ws_to.closed
ClosesDest(d) == conn[Dest(d)] = "closed"

\* CloseCall with the source's close code and the message's data
CloseCallOfSource(d, msg) ==
    [to |-> Dest(d), code_of |-> Source(d), message |-> msg.data]

\* ws_to.close(code=ws_to.close_code, message=msg.extra): the connection that
\* is closed, the connection whose close_code is passed, and the message
CloseCall(d, msg) ==
    [to |-> Dest(d), code_of |-> Dest(d), message |-> msg.extra]

\* ws_server.prepare(request), then url and source_header
WsPrepare ==
    /\ pc = "ws_prepare"
    /\ \/ /\ Raise("HTTPBadRequest")
          /\ UNCHANGED <<clientOut, source_header, conn>>
       \/ /\ clientOut' = Append(clientOut,
                [kind |-> "upgrade", off |-> 0, len |-> 0,
                 protocols |-> req_protocols(req), autoclose |-> FALSE,
                 autoping |-> FALSE])
          /\ conn' = [conn EXCEPT !.server = "open"]
          /\ LET h == _init_header(req)
             IN  IF ~h.ok
                 THEN Raise("TypeError") /\ UNCHANGED source_header
                 ELSE /\ source_header' = Some(h.headers)
                      /\ pc' = "ws_connect"
                      /\ UNCHANGED <<outcome, raised>>
    /\ UNCHANGED <<req, resolved, addon, backendCalls, data, result, mode,
                   offset, cur, shortReads, streamError, task, recvd, sent,
                   closeCalls>>

\* async with self.sys_websession.ws_connect(...) as ws_client, and the start
\* of the two forwarding tasks by asyncio.wait
WsConnect ==
    /\ pc = "ws_connect"
    /\ \/ /\ backendCalls' = Append(backendCalls,
                [kind |-> "ws", ok |-> FALSE, headers |-> source_header[1],
                 body |-> <<>>, protocols |-> req_protocols(req),
                 autoclose |-> FALSE, autoping |-> FALSE])
          /\ Raise("WSServerHandshakeError")
          /\ UNCHANGED <<conn, task>>
       \/ /\ backendCalls' = Append(backendCalls,
                [kind |-> "ws", ok |-> TRUE, headers |-> source_header[1],
                 body |-> <<>>, protocols |-> req_protocols(req),
                 autoclose |-> FALSE, autoping |-> FALSE])
          /\ conn' = [conn EXCEPT !.client = "open"]
          /\ task' = [d \in Directions |-> [pc |-> "recv", msg |-> None]]
          /\ pc' = "ws_wait"
          /\ UNCHANGED <<outcome, raised>>
    /\ UNCHANGED <<req, resolved, addon, clientOut, httpVars, recvd, sent,
                   closeCalls>>

\* WsWaitReturn that takes the result of the tasks, as asyncio.gather does:
\* the exception of a failed task is raised in the handler
WsWaitReturnRaising ==
    /\ pc = "ws_wait"
    /\ \E d \in Directions : task[d].pc \in Ended
    /\ conn' = [conn EXCEPT !.client = "closed"]
    /\ IF \E d \in Directions : task[d].pc = "failed"
       THEN Raise("ConnectionResetError")
       ELSE pc' = "ws_exit" /\ UNCHANGED <<outcome, raised>>
    /\ UNCHANGED <<req, resolved, addon, backendCalls, clientOut, httpVars,
                   task, recvd, sent, closeCalls>>

\* asyncio.wait(..., return_when=FIRST_COMPLETED) returns once a task has
\* ended; leaving the async with block closes ws_client
WsWaitReturn ==
    /\ pc = "ws_wait"
    /\ \E d \in Directions : task[d].pc \in Ended
    /\ conn' = [conn EXCEPT !.client = "closed"]
    /\ pc' = "ws_exit"
    /\ UNCHANGED <<req, raised, outcome, resolved, addon, backendCalls, clientOut,
                   httpVars, task, recvd, sent, closeCalls>>

\* return ws_server
WsReturn ==
    /\ pc = "ws_exit"
    /\ Finish("WebSocketResponse")
    /\ UNCHANGED <<req, raised, resolved, addon, backendCalls, clientOut, httpVars,
                   wsVars>>

\* the web server finishes the returned WebSocketResponse: it closes it
ServerFinish ==
    /\ pc = "done"
    /\ outcome = "WebSocketResponse"
    /\ conn.server = "open"
    /\ conn' = [conn EXCEPT !.server = "closed"]
    /\ UNCHANGED <<req, raised, pc, outcome, resolved, addon, backendCalls, clientOut,
                   httpVars, task, recvd, sent, closeCalls>>

\* `async for msg in ws_from`: the next message, and the branch it takes when
\* that branch is no send
ForwardRecv(d) ==
    /\ task[d].pc = "recv"
    /\ \/ /\ conn[Source(d)] = "closed"
          /\ task' = [task EXCEPT ![d].pc = "done"]
          /\ UNCHANGED <<conn, recvd, closeCalls>>
       \/ /\ conn[Source(d)] = "open"
          /\ TotalFrames < MaxFrames
          /\ \E msg \in WsFrames :
                /\ recvd' = [recvd EXCEPT ![d] = Append(@, msg)]
                /\ IF HasSend(msg)
                   THEN /\ task' = [task EXCEPT ![d] =
                                        [pc |-> "send", msg |-> Some(msg)]]
                        /\ UNCHANGED <<conn, closeCalls>>
                   ELSE IF msg.type = "CLOSE"
                   THEN /\ task' = [task EXCEPT ![d].pc = "done"]
                        /\ UNCHANGED <<conn, closeCalls>>
                   ELSE /\ conn' = [conn EXCEPT ![Source(d)] = "closed"]
                        /\ closeCalls' = [closeCalls EXCEPT ![d] =
                              IF ClosesDest(d)
                              THEN Append(@, CloseCall(d, msg))
                              ELSE @]
                        /\ UNCHANGED task
       \/ /\ conn[Source(d)] = "open"
          /\ \E e \in TaskErrors :
                task' = [task EXCEPT ![d].pc = AfterError(e)]
          /\ UNCHANGED <<conn, recvd, closeCalls>>
    /\ UNCHANGED <<req, raised, pc, outcome, resolved, addon, backendCalls, clientOut,
                   httpVars, sent>>

\* the send branch of the message in hand: await ws_to.send_str(msg.data) etc.
ForwardSend(d) ==
    /\ task[d].pc = "send"
    /\ \/ /\ conn[Dest(d)] = "open"
          /\ sent' = [sent EXCEPT ![d] = Append(@, ForwardedFrame(task[d].msg[1]))]
          /\ task' = [task EXCEPT ![d] = [pc |-> "recv", msg |-> None]]
       \/ /\ \E e \in TaskErrors :
                task' = [task EXCEPT ![d] = [pc |-> AfterError(e), msg |-> None]]
          /\ UNCHANGED sent
    /\ UNCHANGED <<req, raised, pc, outcome, resolved, addon, backendCalls, clientOut,
                   httpVars, conn, recvd, closeCalls>>

Next ==
    \/ CheckSession
    \/ ExtractAddon
    \/ Dispatch
    \/ HttpEnter
    \/ HttpRequest
    \/ HttpReadSimple
    \/ StreamPrepare
    \/ StreamRead
    \/ StreamWrite
    \/ WsPrepare
    \/ WsConnect
    \/ WsWaitReturn
    \/ WsReturn
    \/ ServerFinish
    \/ \E d \in Directions : ForwardRecv(d)
    \/ \E d \in Directions : ForwardSend(d)

Spec == Init /\ [][Next]_vars


-----------------------------------------------------------------------------
(* _init_header on its own, over arbitrary small header lists.             *)

\* the names a request may carry: the filtered ones as aiohttp's parser
\* stores them, the two token headers also as a client may spell them, and
\* two that are not filtered
HeaderNames ==
    InitHeaderFilter
    \cup {"x-supervisor-token", "x-hassio-key", X_FORWARDED_FOR, "Accept"}

HeaderValues == {"1.2.3.4", "v"}

HeaderPeers == {Some("10.0.0.5"), Some("172.30.32.2"), None}

SeqsUpTo(S, n) == UNION {[1..k -> S] : k \in 0..n}

HeaderRequests ==
    {[cookie |-> Some("session-live"), token |-> "token-plain",
      method |-> "GET", headers |-> h, body |-> <<>>, peer |-> p] :
        h \in SeqsUpTo(HeaderNames \X HeaderValues, MaxHeaders),
        p \in HeaderPeers}

InitHeader ==
    /\ req \in HeaderRequests
    /\ pc = "init_header"
    /\ Fresh

\* source_header = _init_header(request, addon)
ApplyInitHeader ==
    /\ pc = "init_header"
    /\ LET h == _init_header(req)
       IN  IF h.ok
           THEN source_header' = Some(h.headers) /\ UNCHANGED outcome
           ELSE outcome' = "InternalError" /\ UNCHANGED source_header
    /\ pc' = "done"
    /\ UNCHANGED <<req, raised, resolved, addon, backendCalls, clientOut, data, result,
                   mode, offset, cur, shortReads, streamError, wsVars>>

NextHeader == ApplyInitHeader

SpecHeader == InitHeader /\ [][NextHeader]_vars


-----------------------------------------------------------------------------
(* The claims.                                                             *)

SessionRejected == req.cookie = None \/ req.cookie[1] # "session-live"

\* C1: a request whose session cookie is absent or invalid ends Unauthorized,
\* and at no time is its route resolved, its client upgraded or written to,
\* or a backend connection (HTTP or websocket) opened for it.
C1_UnauthorizedBeforeAnything ==
    SessionRejected =>
        /\ resolved = FALSE
        /\ addon = None
        /\ clientOut = <<>>
        /\ backendCalls = <<>>
        /\ conn = [server |-> "none", client |-> "none"]
        /\ pc = "done" => outcome = "Unauthorized"

C1_Witness ==
    /\ req.cookie = Some("session-gone")
    /\ pc = "done"
    /\ outcome = "Unauthorized"

\* C2: a request with a valid session and a token the registry does not know
\* ends ServiceUnavailable; no backend connection is opened and the client
\* is never upgraded or written to.
C2_UnknownTokenUnavailable ==
    (~SessionRejected /\ req.token \notin {"token-stream", "token-plain"}) =>
        /\ backendCalls = <<>>
        /\ clientOut = <<>>
        /\ conn = [server |-> "none", client |-> "none"]
        /\ pc = "done" => outcome = "ServiceUnavailable"

C2_Witness ==
    /\ req.cookie = Some("session-live")
    /\ req.token = "token-unknown"
    /\ resolved
    /\ pc = "done"
    /\ outcome = "ServiceUnavailable"

\* C3: the client never receives the start of a response (response headers,
\* or a completed upgrade handshake) from a request that then ends with an
\* error outcome (Unauthorized, ServiceUnavailable or BadGateway).
C3_NoErrorAfterStart ==
    ~(/\ clientOut # <<>>
      /\ outcome \in {"Unauthorized", "ServiceUnavailable", "BadGateway"})


\* the names the transform must keep from the backend, in lower case
NotForwarded ==
    {"content-length", "content-encoding", "transfer-encoding",
     "sec-websocket-extensions", "sec-websocket-protocol",
     "sec-websocket-version", "sec-websocket-key", "x-supervisor-token",
     "x-hassio-key"}

\* C4: whatever the case the header names were sent in, the outbound headers
\* _init_header builds hold no content-length, content-encoding,
\* transfer-encoding, websocket negotiation header or session token header.
C4_FilteredInAnyCase ==
    source_header # None =>
        \A i \in 1..Len(source_header[1]) :
            Lower(source_header[1][i][1]) \notin NotForwarded

\* the values the outbound dict holds under X-Forwarded-For
ForwardedForOut ==
    {source_header[1][i][2] : i \in {j \in 1..Len(source_header[1]) :
                                        source_header[1][j][1] = "X-Forwarded-For"}}

PriorForwardedFor ==
    {i \in 1..Len(req.headers) : req.headers[i][1] = "X-Forwarded-For"}

\* C5: the forwarded-for value _init_header sets is the peer address alone
\* when the request carries no forwarded-for header, and
\* "<prior value>, <peer address>" when it carries one.
C5_ForwardedForChain ==
    (pc = "done" /\ source_header # None) =>
        IF PriorForwardedFor = {}
        THEN ForwardedForOut = {req.peer[1]}
        ELSE \E i \in PriorForwardedFor :
                /\ \A j \in PriorForwardedFor : i <= j
                /\ ForwardedForOut = {req.headers[i][2] \o ", " \o req.peer[1]}

\* C6: the response is delivered buffered exactly when the backend declares a
\* Content-Length below 4,194,000; with no declared length, or one of
\* 4,194,000 or more, it is streamed.  One of the two modes is chosen, and
\* the delivery follows it.
C6_BufferedIffBelowLimit ==
    result # None =>
        /\ mode \in {"buffered", "streamed"}
        /\ mode = "buffered" <=>
              (result[1].cl # None /\ result[1].cl[1] < 4194000)
        /\ mode = "buffered" =>
              /\ clientOut = <<>>
              /\ pc \in {"http_read", "done"}
              /\ outcome \in {"none", "Response", "BadGateway"}
        /\ mode = "streamed" =>
              /\ pc \in {"stream_prepare", "stream_read", "stream_write", "done"}
              /\ outcome \in {"none", "StreamResponse"}

C6_Witness ==
    /\ result = Some([cl |-> Some(4194000), len |-> 4194000])
    /\ mode = "streamed"
    /\ pc = "done"
    /\ outcome = "StreamResponse"
    /\ ~streamError

\* C7: a streamed response that completes without a connection error has
\* written the response headers first and then chunks of at most 4096 bytes
\* each, which taken in the order written are the backend body from its
\* first byte to its last, nothing dropped, repeated or out of place.
C7_StreamedBodyIntact ==
    (pc = "done" /\ outcome = "StreamResponse" /\ ~streamError) =>
        /\ Len(clientOut) >= 1
        /\ clientOut[1].kind = "headers"
        /\ \A i \in 2..Len(clientOut) :
              /\ clientOut[i].kind = "chunk"
              /\ clientOut[i].len >= 1
              /\ clientOut[i].len <= 4096
              /\ clientOut[i].off =
                    IF i = 2 THEN 0
                    ELSE clientOut[i - 1].off + clientOut[i - 1].len
        /\ IF Len(clientOut) = 1 THEN result[1].len = 0
           ELSE clientOut[Len(clientOut)].off + clientOut[Len(clientOut)].len
                    = result[1].len

C7_Witness ==
    /\ pc = "done"
    /\ outcome = "StreamResponse"
    /\ ~streamError
    /\ result[1].len = 8193
    /\ Len(clientOut) = 4
    /\ clientOut[2].len = 4096
    /\ clientOut[3].len = 4096
    /\ clientOut[4].len = 1

\* the messages of a sequence that have a send branch
Sendable(frames) ==
    SelectSeq(frames, LAMBDA m : m.type \in {"TEXT", "BINARY", "PING", "PONG"})

\* C8: in each direction the frames sent to the destination are, in order, a
\* prefix of the text, binary, ping and pong frames taken from the source:
\* each of the same type, text and binary with the same payload.
C8_ForwardedInOrder ==
    \A d \in Directions :
        LET got == Sendable(recvd[d])
        IN  /\ Len(sent[d]) <= Len(got)
            /\ \A i \in 1..Len(sent[d]) :
                  /\ sent[d][i].type = got[i].type
                  /\ got[i].type \in {"TEXT", "BINARY"} =>
                        sent[d][i].data = got[i].data

C8_Witness ==
    /\ Len(sent["up"]) = 2
    /\ sent["up"][1] = [type |-> "BINARY", data |-> "a"]
    /\ sent["up"][2] = [type |-> "TEXT", data |-> "b"]
    /\ Len(sent["down"]) = 1
    /\ sent["down"][1].type = "PING"

BackendHasClosed ==
    \E i \in 1..Len(recvd["down"]) : recvd["down"][i].type = "CLOSE"

\* C9: once the backend has closed its connection, no frame is forwarded any
\* more in either direction.
C9_NoForwardAfterBackendClose ==
    [][BackendHasClosed => sent' = sent]_vars

\* C10: the client's body is handed on as a live stream exactly for a POST to
\* a stream-capable add-on; in every other case it is read whole first and
\* those bytes are what is sent.  Either way the backend receives the bytes
\* the client sent.
C10_BodyStreamedIffPostAndCapable ==
    data # None =>
        /\ data[1].kind \in {"stream", "bytes"}
        /\ data[1].kind = "stream" <=>
              (req.method = "POST" /\ req.token = "token-stream")
        /\ data[1].kind = "bytes" => data[1].bytes = req.body
        /\ \A i \in 1..Len(backendCalls) :
              (backendCalls[i].kind = "http" /\ backendCalls[i].ok) =>
                  backendCalls[i].body = req.body

C10_Witness ==
    /\ req.method = "POST"
    /\ req.token = "token-stream"
    /\ data = Some([kind |-> "stream", bytes |-> <<>>])
    /\ Len(backendCalls) = 1
    /\ backendCalls[1].ok
    /\ backendCalls[1].body = <<104, 105>>

\* a call to the backend has failed with a connection-level error while the
\* client has been sent nothing but, on the websocket path, the upgrade
BackendErrorBeforeHeaders ==
    /\ raised \in ClientErrors
    /\ \A i \in 1..Len(clientOut) : clientOut[i].kind = "upgrade"

\* C11: for an authorized request whose backend is resolved, a connection
\* error while contacting the backend (the HTTP request, the read of a
\* buffered body, the websocket connect) before response headers are sent
\* ends the handler with BadGateway and nothing else; and every failed
\* backend call is such an error.
C11_BackendErrorIsBadGateway ==
    /\ BackendErrorBeforeHeaders =>
          /\ pc = "done"
          /\ outcome = "BadGateway"
          /\ addon # None
          /\ validate_session(req.cookie)
    /\ (\E i \in 1..Len(backendCalls) : ~backendCalls[i].ok) =>
          BackendErrorBeforeHeaders

C11_Witness ==
    /\ raised = "ClientPayloadError"
    /\ outcome = "BadGateway"
    /\ mode = "buffered"
    /\ clientOut = <<>>
    /\ Len(backendCalls) = 1
\* the streamed response has begun and an error was then caught
MidStreamError == streamError /\ clientOut # <<>>

\* the chunks written to the client are consecutive slices of the backend's
\* body from its first byte
WrittenIsPrefix ==
    /\ clientOut[1].kind = "headers"
    /\ \A i \in 2..Len(clientOut) :
          /\ clientOut[i].kind = "chunk"
          /\ clientOut[i].off =
                 (IF i = 2 THEN 0
                  ELSE clientOut[i - 1].off + clientOut[i - 1].len)
          /\ clientOut[i].off + clientOut[i].len <= result[1].len

\* C12: when a connection error occurs after a streamed response has begun,
\* what was written stays and is a prefix of the body, nothing more is
\* written, the backend is not contacted again, and the handler returns the
\* truncated streamed response, never BadGateway.
C12_MidStreamErrorTruncates ==
    [][/\ MidStreamError' =>
            /\ pc' = "done"
            /\ outcome' = "StreamResponse"
            /\ raised' = "none"
            /\ WrittenIsPrefix'
            /\ Len(backendCalls') = 1
       /\ MidStreamError =>
            /\ clientOut' = clientOut
            /\ backendCalls' = backendCalls
            /\ outcome' = outcome]_vars

C12_Witness ==
    /\ MidStreamError
    /\ Len(clientOut) = 3
    /\ clientOut[3].off + clientOut[3].len < result[1].len
    /\ outcome = "StreamResponse"
\* one of the two forwarding tasks has ended
SomeTaskEnded == \E d \in Directions : task[d].pc \in Ended

\* asyncio.wait has returned to _handle_websocket
WaitReturned == pc \in {"ws_exit", "done"} /\ SomeTaskEnded

\* C13: once either forwarding task has ended and the wait has returned, the
\* other task is cancelled: the surviving task takes no further step, so
\* from then on no frame is taken from a source, none is sent and no close
\* call is made.
C13_SurvivorTakesNoStep ==
    [][WaitReturned =>
          /\ recvd' = recvd
          /\ sent' = sent
          /\ closeCalls' = closeCalls]_vars
\* an exception was raised inside a forwarding task: a RuntimeError, which
\* the task catches, or another error, which ends the task
TaskErrored == \E d \in Directions : task[d].pc \in {"caught", "failed"}

\* C14: an error raised inside either forwarding task never leaves the
\* handler: no exception is raised in the handler, and the handler can only
\* go on to return the upgraded session; it never ends with BadGateway or
\* an unhandled error.
C14_TaskErrorStaysInTask ==
    TaskErrored =>
        /\ raised = "none"
        /\ pc \in {"ws_wait", "ws_exit", "done"}
        /\ outcome \in {"none", "WebSocketResponse"}
        /\ pc = "done" <=> outcome = "WebSocketResponse"

C14_Witness ==
    /\ task["up"].pc = "failed"
    /\ task["down"].pc = "caught"
    /\ pc = "done"
    /\ outcome = "WebSocketResponse"
\* the sub-protocol list the request's Sec-WebSocket-Protocol header stands
\* for
AskedProtocols ==
    IF req.headers = WsMixedHeaders THEN <<"mqtt", "json">> ELSE <<>>

\* how one side of the relay was set up
NegotiatedAsAsked(side) ==
    /\ side.protocols = AskedProtocols
    /\ side.autoclose = FALSE
    /\ side.autoping = FALSE

\* C15: on the websocket path the client's upgrade is completed before the
\* backend connection is opened, no frame is relayed before both exist, and
\* both sides are set up with the client's sub-protocol list (the header
\* split on commas and trimmed, empty without the header) and with
\* autoclose and autoping off.
C15_UpgradeThenConnectSameProtocols ==
    /\ \A i \in 1..Len(backendCalls) :
          backendCalls[i].kind = "ws" =>
              /\ clientOut # <<>>
              /\ clientOut[1].kind = "upgrade"
              /\ NegotiatedAsAsked(clientOut[1])
              /\ NegotiatedAsAsked(backendCalls[i])
    /\ \A i \in 1..Len(clientOut) :
          clientOut[i].kind = "upgrade" => NegotiatedAsAsked(clientOut[i])
    /\ (TotalFrames > 0 \/ \E d \in Directions : task[d].pc # "none") =>
          /\ conn.server # "none"
          /\ conn.client # "none"
          /\ Len(backendCalls) = 1
          /\ backendCalls[1].ok

C15_Witness ==
    /\ req.headers = WsMixedHeaders
    /\ Len(backendCalls) = 1
    /\ backendCalls[1].ok
    /\ backendCalls[1].protocols = <<"mqtt", "json">>
    /\ clientOut[1].protocols = <<"mqtt", "json">>
    /\ Len(sent["down"]) = 1
\* the types that have a send branch or end the iteration of the source
SentOrClosing == {"TEXT", "BINARY", "PING", "PONG", "CLOSE"}

\* task d takes, in this step, a message of no such type
TakesOther(d) ==
    /\ Len(recvd'[d]) = Len(recvd[d]) + 1
    /\ recvd'[d][Len(recvd'[d])].type \notin SentOrClosing

Running(d) == task[d].pc \in {"recv", "send"}

\* C17: after the handler has finished, in whichever way, no backend
\* connection of the request is still open and no forwarding task of the
\* request is still running.
C17_NothingLeftAfterHandler ==
    pc = "done" =>
        /\ conn.client # "open"
        /\ \A d \in Directions : ~Running(d)
\* the outcomes in which the handler returns a response object
Returned == {"Response", "StreamResponse", "WebSocketResponse"}

\* C18: when the client's peer address cannot be determined the request
\* fails with an unhandled error once it reaches the header transform, on
\* either path: no backend connection is opened, no outbound header set is
\* produced, no forwarding task is started and no response is returned.
C18_NoPeerNothingForwarded ==
    req.peer = None =>
        /\ backendCalls = <<>>
        /\ source_header = None
        /\ \A d \in Directions : task[d].pc = "none"
        /\ outcome \notin Returned \cup {"BadGateway"}
        /\ (pc = "done" /\ addon # None /\ raised # "HTTPBadRequest") =>
              (raised = "TypeError" /\ outcome = "InternalError")

C18_Witness ==
    /\ req.peer = None
    /\ pc = "done"
    /\ outcome = "InternalError"
    /\ clientOut # <<>>
    /\ clientOut[1].kind = "upgrade"
    /\ backendCalls = <<>>
\* the (name, value) pairs of a header list whose name is neither to be
\* filtered nor the forwarded-for header, in the order of the list
Kept(headers) ==
    SelectSeq(headers,
              LAMBDA h : Lower(h[1]) \notin NotForwarded \cup {"x-forwarded-for"})

\* C19: the outbound headers of _init_header hold every inbound header that
\* is not filtered (and is not forwarded-for) with its value unchanged,
\* duplicates of a name included, in inbound order.
C19_CopiesKeepDuplicates ==
    source_header # None => Kept(source_header[1]) = Kept(req.headers)
\* C20 as stated: a message that is not text, binary, ping or pong and does
\* not end the iteration, taken while the destination is open, is dropped:
\* nothing is sent, no close call is made, neither connection changes state
\* and the task stays in its loop.
C20_OtherFrameChangesNothing ==
    [][\A d \in Directions :
          (TakesOther(d) /\ conn[Dest(d)] = "open") =>
              /\ sent' = sent
              /\ closeCalls' = closeCalls
              /\ conn' = conn
              /\ task'[d] = task[d]]_vars

\* C20, amended: such a message, taken while the destination is open, makes
\* the task do nothing: nothing is sent, no close call is made, the
\* destination connection keeps its state and the task stays in its loop.
\* The source connection is the one that has changed: it is closed when
\* the message is delivered.
C20_OtherFrameDropped ==
    [][\A d \in Directions :
          (TakesOther(d) /\ conn[Dest(d)] = "open") =>
              /\ sent' = sent
              /\ closeCalls' = closeCalls
              /\ conn'[Dest(d)] = conn[Dest(d)]
              /\ conn'[Source(d)] = "closed"
              /\ task'[d] = task[d]]_vars

C20_Witness ==
    \E d \in Directions :
        /\ recvd[d] # <<>>
        /\ recvd[d][Len(recvd[d])].type = "ERROR"
        /\ conn[Dest(d)] = "open"
        /\ conn[Source(d)] = "closed"
        /\ closeCalls[d] = <<>>
        /\ task[d].pc = "recv"

=============================================================================
